---------------------------- MODULE Spec2Model ----------------------------
(***************************************************************************)
(* A model of src/qwen_voice.py: the QwenVoice assistant loop, its         *)
(* inference-subprocess lifecycle, its conversation buffer / prompt        *)
(* formatter and its response sanitizer.                                   *)
(*                                                                         *)
(* Text is a sequence of one-character strings, so that the string         *)
(* operations of the source (strip, lower, split, replace, join, `in`) are *)
(* computed and not assumed.                                               *)
(***************************************************************************)
EXTENDS Integers, Sequences, FiniteSets, TLC

(***************************************************************************)
(* Python str operations                                                   *)
(***************************************************************************)

\* the characters str.strip() removes
Whitespace == {" ", "\n", "\t", "\r"}

UpperCase == <<"A","B","C","D","E","F","G","H","I","J","K","L","M","N","O","P","Q","R","S","T","U","V","W","X","Y","Z">>

LowerCase == <<"a","b","c","d","e","f","g","h","i","j","k","l","m","n","o","p","q","r","s","t","u","v","w","x","y","z">>

LowerChar(c) ==
    IF \E i \in 1..Len(UpperCase) : UpperCase[i] = c
    THEN LowerCase[CHOOSE i \in 1..Len(UpperCase) : UpperCase[i] = c]
    ELSE c

\* str.lower()
Lower(s) == [i \in 1..Len(s) |-> LowerChar(s[i])]

RECURSIVE LStrip(_)
LStrip(s) == IF s = <<>> \/ Head(s) \notin Whitespace THEN s ELSE LStrip(Tail(s))

RECURSIVE RStrip(_)
RStrip(s) ==
    IF s = <<>> \/ s[Len(s)] \notin Whitespace THEN s
    ELSE RStrip(SubSeq(s, 1, Len(s) - 1))

\* str.strip()
Strip(s) == RStrip(LStrip(s))

\* sub occurs in s at index i
IsAt(s, sub, i) ==
    /\ i >= 1
    /\ i + Len(sub) - 1 <= Len(s)
    /\ \A k \in 1..Len(sub) : s[i + k - 1] = sub[k]

\* str.find(), 1-based; 0 when sub does not occur
Find(s, sub) ==
    LET occ == {i \in 1..(Len(s) - Len(sub) + 1) : IsAt(s, sub, i)}
    IN  IF occ = {} THEN 0 ELSE CHOOSE i \in occ : \A j \in occ : i <= j

\* the `in` operator on strings
Contains(s, sub) == Find(s, sub) # 0

\* str.split(sep): left to right, non-overlapping
RECURSIVE Split(_, _)
Split(s, sep) ==
    LET i == Find(s, sep)
    IN  IF i = 0 THEN <<s>>
        ELSE <<SubSeq(s, 1, i - 1)>> \o Split(SubSeq(s, i + Len(sep), Len(s)), sep)

\* sep.join(parts)
RECURSIVE Join(_, _)
Join(parts, sep) ==
    IF parts = <<>> THEN <<>>
    ELSE IF Len(parts) = 1 THEN parts[1]
    ELSE parts[1] \o sep \o Join(Tail(parts), sep)

\* str.replace(old, new)
Replace(s, old, new) == Join(Split(s, old), new)

First(seq) == seq[1]

Last(seq) == seq[Len(seq)]

(***************************************************************************)
(* Configuration (module-level constants of the source)                    *)
(***************************************************************************)

WAKE_WORDS == <<<<"h","e","y"," ","q","w","e","n">>, <<"h","e","y"," ","q","u","i","n","n">>, <<"h","e","y"," ","w","h","e","n">>, <<"a"," ","q","w","e","n">>, <<"h","e","y"," ","g","w","e","n">>>>

\* the two special command lists of handle_command
ExitPhrases == {<<"s","t","o","p">>, <<"q","u","i","t">>, <<"e","x","i","t">>, <<"g","o","o","d","b","y","e">>, <<"b","y","e">>}

ResetPhrases == {<<"c","l","e","a","r">>, <<"r","e","s","e","t">>, <<"f","o","r","g","e","t">>, <<"n","e","w"," ","c","o","n","v","e","r","s","a","t","i","o","n">>}

\* Qwen chat-template markers
ImStart == <<"<","|","i","m","_","s","t","a","r","t","|",">">>

ImEnd == <<"<","|","i","m","_","e","n","d","|",">">>

NL == <<"\n">>

RoleUser == <<"u","s","e","r">>

RoleAssistant == <<"a","s","s","i","s","t","a","n","t">>

\* The system block of format_prompt.  The prose of the system message has no
\* structure any operation looks at; it is kept as one opaque element.
SystemPreamble == ImStart \o <<"s","y","s","t","e","m">> \o NL \o <<"SYSTEM_MESSAGE">> \o ImEnd \o NL

AssistantOpen == ImStart \o RoleAssistant \o NL

\* conversation_history[-20:] keeps this many turns
HistoryWindow == 20

\* the utterances the assistant itself speaks
SayWhat == <<"W","h","a","t","?">>

SayGoodbye == <<"G","o","o","d","b","y","e","!">>

SayCleared == <<"C","o","n","v","e","r","s","a","t","i","o","n"," ","c","l","e","a","r","e","d","."," ","S","t","a","r","t","i","n","g"," ","f","r","e","s","h",".">>

SayIgnoring == <<"F","i","n","e",","," ","i","g","n","o","r","i","n","g"," ","y","o","u"," ","n","o","w",".">>

SayYes == <<"Y","e","s","?">>

\* the fixed replies of query_llm
ReplyEmpty == <<"I"," ","d","i","d","n","'","t"," ","g","e","n","e","r","a","t","e"," ","a"," ","r","e","s","p","o","n","s","e","."," ","L","e","t"," ","m","e"," ","t","r","y"," ","a","g","a","i","n",".">>

ReplyTimeout == <<"I","'","m"," ","s","o","r","r","y",","," ","I"," ","t","o","o","k"," ","t","o","o"," ","l","o","n","g"," ","t","o"," ","t","h","i","n","k","."," ","C","o","u","l","d"," ","y","o","u"," ","t","r","y"," ","a","g","a","i","n","?">>

ReplyError == <<"I"," ","e","n","c","o","u","n","t","e","r","e","d"," ","a","n"," ","e","r","r","o","r","."," ","P","l","e","a","s","e"," ","t","r","y"," ","a","g","a","i","n",".">>

(***************************************************************************)
(* format_prompt                                                           *)
(***************************************************************************)

UserTurn(user_message) == [role |-> RoleUser, content |-> user_message]

AssistantTurn(text) == [role |-> RoleAssistant, content |-> text]

\* seq[-n:]
LastN(seq, n) ==
    LET start == IF Len(seq) > n THEN Len(seq) - n ELSE 0
    IN  SubSeq(seq, start + 1, Len(seq))

\* one iteration of the for loop: f"<|im_start|>{role}\n{content}<|im_end|>\n"
RenderTurn(msg) == ImStart \o msg.role \o NL \o msg.content \o ImEnd \o NL

RECURSIVE RenderTurns(_)
RenderTurns(msgs) ==
    IF msgs = <<>> THEN <<>> ELSE RenderTurn(Head(msgs)) \o RenderTurns(Tail(msgs))

\* mutant of PromptTurns: the slice is taken from the front, [:20]
PromptTurnsFromFront(hist) ==
    SubSeq(hist, 1, IF Len(hist) > HistoryWindow THEN HistoryWindow ELSE Len(hist))

\* the turns the for loop of format_prompt iterates over
PromptTurns(hist) == LastN(hist, HistoryWindow)

\* the prompt built from the history (the user turn already appended)
BuildPrompt(hist) == SystemPreamble \o RenderTurns(PromptTurns(hist)) \o AssistantOpen

(***************************************************************************)
(* The response clean-up of query_llm                                      *)
(***************************************************************************)

AssistantStart == ImStart \o RoleAssistant

StatsOpen == <<"[">>

StatsRate == <<"t","/","s">>

\* skip_keywords; the two banner glyph pairs are written by code point
SkipKeywords ==
    { <<"b","u","i","l","d">>, <<"m","o","d","e","l">>, <<"m","o","d","a","l","i","t","i","e","s">>, <<"a","v","a","i","l","a","b","l","e"," ","c","o","m","m","a","n","d","s">>, <<"/","e","x","i","t">>, <<"/","r","e","g","e","n">>,
      <<"/","c","l","e","a","r">>, <<"/","r","e","a","d">>, <<"L","o","a","d","i","n","g"," ","m","o","d","e","l">>, <<"U+2588", "U+2588">>,
      <<"U+2584", "U+2584">>, <<"l","l","a","m","a">>, <<">">> }

\* response.split("<|im_start|>assistant")[-1] when the marker occurs
CutAssistantStart(r) ==
    IF Contains(r, AssistantStart) THEN Last(Split(r, AssistantStart)) ELSE r

\* response.split("<|im_end|>")[0] when the marker occurs
CutEndToken(r) == IF Contains(r, ImEnd) THEN First(Split(r, ImEnd)) ELSE r

\* response.split("[")[0] when both "[" and "t/s" occur
CutStats(r) ==
    IF Contains(r, StatsOpen) /\ Contains(r, StatsRate)
    THEN First(Split(r, StatsOpen)) ELSE r

\* the line filter: FALSE for a line the loop skips
KeepLine(line) ==
    LET stripped == Strip(line)
    IN  /\ ~(stripped = <<>> \/ stripped = <<">">>)
        /\ ~(\E kw \in SkipKeywords : Contains(line, kw))

\* mutant of JoinLines: ' '.join(clean_lines)
JoinLinesWithSpace(clean_lines) == Join(clean_lines, <<" ">>)

\* '\n'.join(clean_lines)
JoinLines(clean_lines) == Join(clean_lines, NL)

CleanLines(r) == Strip(JoinLines(SelectSeq(Split(r, NL), KeepLine)))

\* the steps between the empty check and the history append
Sanitize(r) == CleanLines(CutStats(CutEndToken(CutAssistantStart(r))))

(***************************************************************************)
(* speak: text preparation                                                 *)
(***************************************************************************)

\* text.strip() is empty
Blank(text) == Strip(text) = <<>>

\* [*_`#]; the backquote is written by code point
MarkdownChars == {"*", "_", "U+0060", "#"}

\* re.sub(r'\n+', '. ', s)
RECURSIVE CollapseNewlines(_)
CollapseNewlines(s) ==
    IF s = <<>> THEN <<>>
    ELSE IF Head(s) # "\n" THEN <<Head(s)>> \o CollapseNewlines(Tail(s))
    ELSE IF Len(s) > 1 /\ s[2] = "\n" THEN CollapseNewlines(Tail(s))
    ELSE <<"."," ">> \o CollapseNewlines(Tail(s))

\* clean_text of speak
CleanForTTS(text) ==
    CollapseNewlines(SelectSeq(text, LAMBDA c : c \notin MarkdownChars))


(***************************************************************************)
(* Exceptions and the try blocks of the source                             *)
(***************************************************************************)

\* SystemExit and KeyboardInterrupt derive from BaseException only
IsException(e) == e \notin {"SystemExit", "KeyboardInterrupt"}

\* mutant of Catches: `except Exception` behaves like a bare except
CatchesEverything(clause, e) == clause = "Exception" \/ clause = e

\* does an `except <clause>` catch an exception of class e
Catches(clause, e) ==
    IF clause = "Exception" THEN IsException(e) ELSE clause = e

Clause(c, target) == [catch |-> c, to |-> target]

\* run: except KeyboardInterrupt; main: except Exception
MainFrame == << <<Clause("Exception", "fatal")>> >>

RunFrames == << <<Clause("KeyboardInterrupt", "run_interrupted")>> >> \o MainFrame

\* listen_for_wake_word: the inner try around recognition and the outer try of
\* the loop body (its `except KeyboardInterrupt: raise` catches nothing)
WakeInner == <<Clause("UnknownValueError", "wake_listen"), Clause("RequestError", "wake_listen")>>

WakeOuter == <<Clause("Exception", "wake_listen")>>

\* query_llm: the outer try
QueryFrame == <<Clause("TimeoutExpired", "q_except_timeout"), Clause("Exception", "q_except_error")>>

InitPcs == {"init_tts", "init_check"}

QueryPcs == {"q_popen", "q_register", "q_communicate", "q_kill", "q_communicate2", "q_finally", "q_parse"}

SpeakPcs == {"speak", "sp_tmpfile", "sp_infer", "sp_aplay", "sp_unlink", "sp_espeak", "sp_espeak_wait"}

ShutdownPcs == {"cleanup", "cleanup_wait", "sig_exit", "atexit", "exited"}

\* the try blocks around a program point outside speak, innermost first
SiteFrames(site) ==
    IF site \in InitPcs THEN MainFrame
    ELSE IF site = "wake_listen" THEN <<WakeOuter>> \o RunFrames
    ELSE IF site \in {"wake_got", "wake_detected"} THEN <<WakeInner, WakeOuter>> \o RunFrames
    ELSE IF site \in QueryPcs THEN <<QueryFrame>> \o RunFrames
    ELSE IF site = "fatal" THEN <<>>
    ELSE RunFrames

\* mutant of SpeakFrames: _speak_espeak has no try block
SpeakFramesUncaught(p, r) ==
    IF p \in {"sp_tmpfile", "sp_infer", "sp_aplay", "sp_unlink"}
    THEN << <<Clause("Exception", "sp_espeak")>> >>
    ELSE <<>>

\* the try blocks of speak / _speak_espeak around a program point of theirs;
\* r is the point speak returns to
SpeakFrames(p, r) ==
    IF p \in {"sp_tmpfile", "sp_infer", "sp_aplay", "sp_unlink"}
    THEN << <<Clause("Exception", "sp_espeak")>> >>
    ELSE IF p \in {"sp_espeak", "sp_espeak_wait"}
    THEN << <<Clause("TimeoutExpired", r), Clause("Exception", r)>> >>
    ELSE <<>>

Frames(p, r) ==
    IF p \in SpeakPcs THEN SpeakFrames(p, r) \o SiteFrames(r) ELSE SiteFrames(p)

\* where an exception of class e raised under `frames` continues:
\* the target of the first clause that catches it, or "uncaught"
RECURSIVE Unwind(_, _)
Unwind(e, frames) ==
    IF frames = <<>> THEN "uncaught"
    ELSE LET hit == SelectSeq(Head(frames), LAMBDA c : Catches(c.catch, e))
         IN  IF hit # <<>> THEN hit[1].to ELSE Unwind(e, Tail(frames))


(***************************************************************************)
(* Bounds and sample inputs                                                *)
(***************************************************************************)

\* turns the buffer may hold in the loop model
MaxHistory == 3

\* inference processes that may exist at once (pids 1..MaxProcs)
MaxProcs == 2

Pids == 1..MaxProcs

\* Python's None, for variables that otherwise hold text
None == <<"<None>">>

\* what listen_for_command can return besides None
Commands ==
    { <<"G","o","o","d","b","y","e">>, <<"S","T","O","P"," ">>, <<"c","l","e","a","r">>, <<"h","e","l","l","o">>, <<"H","e","y"," ","Q","w","e","n">>, <<"h","e","y"," ","g","w","e","n"," ","r","e","s","e","t">>, <<"s","t","o","p"," ","i","t">> }

\* what recognize_google can return in wake-word mode
WakeTranscripts == { <<"H","e","y"," ","G","w","e","n"," ","w","h","a","t","'","s"," ","u","p">>, <<"h","e","l","l","o">> }

\* what the inference process can have written to stdout
Outputs ==
    { <<>>, <<">"," ">>, <<"H","i","!","\n">>,
      <<"b","l","a","h","<","|","i","m","_","s","t","a","r","t","|",">","a","s","s","i","s","t","a","n","t","\n","H","e","l","l","o"," ","t","h","e","r","e","<","|","i","m","_","e","n","d","|",">","\n","[","1","2"," ","t","/","s","]">> }

(***************************************************************************)
(* State                                                                   *)
(***************************************************************************)

VARIABLES
    pc,                    \* the program point of the main flow
    ret,                   \* the point the running speak call returns to
    say,                   \* the text argument of the running speak call
    model_exists,          \* os.path.exists(MODEL_PATH)
    cli_exists,            \* os.path.exists(LLAMA_CLI)
    F5_TTS_AVAILABLE,      \* the module-level flag
    tts_engine,            \* self.tts_engine is not None
    conversation_history,  \* self.conversation_history
    silence_count,         \* local of run_conversation_mode
    command,               \* local of run_conversation_mode / handle_command
    wake_i,                \* index of the for loop over WAKE_WORDS
    text,                  \* local of listen_for_wake_word
    running_processes,     \* self.running_processes: handles (pids)
    procs,                 \* pid -> status of the inference process ("none": no such process)
    proc,                  \* local of query_llm (0: none)
    prompt,                \* the -p argument of the inference command
    result_stdout,         \* local of query_llm
    result_returncode,     \* local of query_llm
    audio,                 \* the audio child of subprocess.run, if any
    tmp_exists,            \* the temporary wav of speak exists on disk
    exit_status,           \* the interpreter's exit status (-1: still alive)
    intr_pc,               \* the point a handled signal interrupted
    cl_i,                  \* index of the for loop of cleanup
    cl_ret,                \* the point cleanup returns to
    sig_seen               \* running_processes as the signal handler found it

vars ==
    << pc, ret, say, model_exists, cli_exists, F5_TTS_AVAILABLE,
       tts_engine, conversation_history, silence_count, command, wake_i, text,
       running_processes, procs, proc, prompt, result_stdout, result_returncode,
       audio, tmp_exists, exit_status, intr_pc, cl_i, cl_ret, sig_seen >>

envVars == <<model_exists, cli_exists, F5_TTS_AVAILABLE, tts_engine>>

convVars == <<conversation_history, silence_count, command, wake_i, text>>

llmVars == <<running_processes, procs, proc, prompt, result_stdout, result_returncode>>

ttsVars == <<audio, tmp_exists>>

shutVars == <<exit_status, intr_pc, cl_i, cl_ret, sig_seen>>

\* the state in which __init__ has registered its handlers (lines 102-112)
Init ==
    /\ pc = "init_tts"
    /\ ret = "none"
    /\ say = None
    /\ model_exists \in BOOLEAN
    /\ cli_exists \in BOOLEAN
    /\ F5_TTS_AVAILABLE \in BOOLEAN
    /\ tts_engine = FALSE
    /\ conversation_history = <<>>
    /\ silence_count = 0
    /\ command = None
    /\ wake_i = 0
    /\ text = None
    /\ running_processes = <<>>
    /\ procs = [p \in Pids |-> "none"]
    /\ proc = 0
    /\ prompt = None
    /\ result_stdout = None
    /\ result_returncode = 0
    /\ audio = "none"
    /\ tmp_exists = FALSE
    /\ exit_status = -1
    /\ intr_pc = "none"
    /\ cl_i = 0
    /\ cl_ret = "none"
    /\ sig_seen = <<>>

(***************************************************************************)
(* Start-up: __init__, main                                                *)
(***************************************************************************)

\* _init_tts: F5TTS() either constructs or raises (caught: flag cleared)
InitTTS ==
    /\ pc = "init_tts"
    /\ \/ /\ F5_TTS_AVAILABLE
          /\ \/ tts_engine' = TRUE /\ UNCHANGED F5_TTS_AVAILABLE
             \/ F5_TTS_AVAILABLE' = FALSE /\ UNCHANGED tts_engine
       \/ /\ ~F5_TTS_AVAILABLE
          /\ UNCHANGED <<F5_TTS_AVAILABLE, tts_engine>>
    /\ pc' = "init_check"
    /\ UNCHANGED <<ret, say, model_exists, cli_exists>>
    /\ UNCHANGED <<convVars, llmVars, ttsVars, shutVars>>

\* mutant of StartupOk: the check of the inference binary is missing
StartupOkModelOnly(model, cli) == model

\* the two existence checks of __init__ both pass
StartupOk(model, cli) == model /\ cli

\* sys.exit(code): SystemExit through the try blocks around `site`
SysExit(site, code) ==
    LET target == Unwind("SystemExit", Frames(site, ret))
    IN  IF target = "uncaught"
        THEN pc' = "atexit" /\ exit_status' = code
        ELSE pc' = target /\ UNCHANGED exit_status

\* lines 117-124, then run() up to the first listen_for_wake_word
StartupCheck ==
    /\ pc = "init_check"
    /\ IF StartupOk(model_exists, cli_exists)
       THEN pc' = "wake_open" /\ UNCHANGED exit_status
       ELSE SysExit("init_check", 1)
    /\ UNCHANGED <<ret, say, envVars, convVars, llmVars, ttsVars>>
    /\ UNCHANGED <<intr_pc, cl_i, cl_ret, sig_seen>>

\* main's `except Exception`: traceback, input(...), then main returns; input
\* raises EOFError when stdin is closed
FatalAck ==
    /\ pc = "fatal"
    /\ pc' = "atexit"
    /\ exit_status' \in {0, 1}
    /\ UNCHANGED <<ret, say, envVars, convVars, llmVars, ttsVars>>
    /\ UNCHANGED <<intr_pc, cl_i, cl_ret, sig_seen>>


(***************************************************************************)
(* speak / _speak_espeak                                                   *)
(***************************************************************************)

\* a call self.speak(t) whose next statement is r
CallSpeak(t, r) == pc' = "speak" /\ say' = t /\ ret' = r

\* control moves to `target`; leaving speak ends its call
SpeakGoto(target) ==
    /\ pc' = target
    /\ IF target \in SpeakPcs THEN UNCHANGED <<ret, say>>
       ELSE ret' = "none" /\ say' = None

\* the text the running audio child is speaking
Spoken == IF audio = "none" THEN None ELSE CleanForTTS(say)

\* line 171: the primary path is taken
UsePrimary(available, engine, ref_voice) == available /\ engine /\ ref_voice

\* lines 164-171 and 196-197: the blank check and the choice of engine;
\* os.path.exists(REFERENCE_VOICE) is read from the file system at each call
SpeakEntry ==
    /\ pc = "speak"
    /\ \E ref_voice \in BOOLEAN :
          IF Blank(say) THEN SpeakGoto(ret)
          ELSE IF UsePrimary(F5_TTS_AVAILABLE, tts_engine, ref_voice)
          THEN SpeakGoto("sp_tmpfile")
          ELSE SpeakGoto("sp_espeak")
    /\ UNCHANGED <<envVars, convVars, llmVars, ttsVars, shutVars>>

\* lines 174-175: NamedTemporaryFile(delete=False)
SpeakTmpFile ==
    /\ pc = "sp_tmpfile"
    /\ tmp_exists' = TRUE
    /\ pc' = "sp_infer"
    /\ UNCHANGED <<ret, say, envVars, convVars, llmVars, audio, shutVars>>

\* lines 178-190: infer writes the wav and aplay is started on it, or either raises
SpeakInfer ==
    /\ pc = "sp_infer"
    /\ \/ /\ pc' = "sp_aplay"
          /\ audio' = "aplay"
          /\ UNCHANGED <<ret, say>>
       \/ /\ SpeakGoto(Unwind("Exception", Frames("sp_infer", ret)))
          /\ UNCHANGED audio
    /\ UNCHANGED <<envVars, convVars, llmVars, tmp_exists, shutVars>>

\* subprocess.run(['aplay', ...]) returns: playback is over
SpeakPlayed ==
    /\ pc = "sp_aplay"
    /\ audio' = "none"
    /\ pc' = "sp_unlink"
    /\ UNCHANGED <<ret, say, envVars, convVars, llmVars, tmp_exists, shutVars>>

\* line 191: os.unlink(output_path), then speak returns
SpeakUnlink ==
    /\ pc = "sp_unlink"
    /\ tmp_exists' = FALSE
    /\ SpeakGoto(ret)
    /\ UNCHANGED <<envVars, convVars, llmVars, audio, shutVars>>

\* lines 201-207: espeak-ng is started, or starting it raises (caught, logged)
SpeakEspeak ==
    /\ pc = "sp_espeak"
    /\ \/ /\ pc' = "sp_espeak_wait"
          /\ audio' = "espeak"
          /\ UNCHANGED <<ret, say>>
       \/ /\ SpeakGoto(Unwind("Exception", Frames("sp_espeak", ret)))
          /\ UNCHANGED audio
    /\ UNCHANGED <<envVars, convVars, llmVars, tmp_exists, shutVars>>

\* espeak-ng exits, or the 120 s timeout expires: subprocess.run kills the
\* child and raises TimeoutExpired (caught, logged)
SpeakEspeakDone ==
    /\ pc = "sp_espeak_wait"
    /\ audio' = "none"
    /\ \/ SpeakGoto(ret)
       \/ SpeakGoto(Unwind("TimeoutExpired", Frames("sp_espeak_wait", ret)))
    /\ UNCHANGED <<envVars, convVars, llmVars, tmp_exists, shutVars>>

(***************************************************************************)
(* listen_for_wake_word                                                    *)
(***************************************************************************)

\* mutant of HasWakeWord: the transcript has to be a wake word
HasWakeWordExact(t) == \E i \in 1..Len(WAKE_WORDS) : t = WAKE_WORDS[i]

\* `for wake_word in WAKE_WORDS: if wake_word in text`
HasWakeWord(t) == \E i \in 1..Len(WAKE_WORDS) : Contains(t, WAKE_WORDS[i])

\* lines 215-219: the microphone is opened, or opening it raises
WakeOpen ==
    /\ pc = "wake_open"
    /\ \/ pc' = "wake_listen"
       \/ pc' = Unwind("Exception", Frames("wake_open", ret))
    /\ UNCHANGED <<ret, say, envVars, convVars, llmVars, ttsVars, shutVars>>

\* lines 227-234: an utterance is captured and recognized
WakeCapture ==
    /\ pc = "wake_listen"
    /\ \E t \in WakeTranscripts : text' = Lower(t)
    /\ pc' = "wake_got"
    /\ UNCHANGED <<ret, say, envVars, conversation_history, silence_count, command, wake_i>>
    /\ UNCHANGED <<llmVars, ttsVars, shutVars>>

\* recognition raises: not understood, service error, anything else
WakeCaptureFails ==
    /\ pc = "wake_listen"
    /\ \E e \in {"UnknownValueError", "RequestError", "Exception"} :
          pc' = Unwind(e, Frames("wake_got", ret))
    /\ UNCHANGED <<ret, say, envVars, convVars, llmVars, ttsVars, shutVars>>

\* lines 237-241
WakeCheck ==
    /\ pc = "wake_got"
    /\ IF HasWakeWord(text)
       THEN CallSpeak(SayWhat, "wake_detected")
       ELSE pc' = "wake_listen" /\ UNCHANGED <<ret, say>>
    /\ text' = None
    /\ UNCHANGED <<envVars, conversation_history, silence_count, command, wake_i>>
    /\ UNCHANGED <<llmVars, ttsVars, shutVars>>

\* line 241 `return True`, then run_conversation_mode up to its loop
WakeReturn ==
    /\ pc = "wake_detected"
    /\ silence_count' = 0
    /\ pc' = "cmd_listen"
    /\ UNCHANGED <<ret, say, envVars, conversation_history, command, wake_i, text>>
    /\ UNCHANGED <<llmVars, ttsVars, shutVars>>


(***************************************************************************)
(* run_conversation_mode                                                   *)
(***************************************************************************)

\* line 452
max_silence == 3

\* mutant of SilenceLimitReached: off by one
SilenceLimitPassed(count) == count > max_silence

\* line 459
SilenceLimitReached(count) == count >= max_silence

\* The for loop over WAKE_WORDS (lines 468-473) from index i on: it runs to the
\* end of the list, or stops at the index where the stripped command is empty
\* and speak("Yes?") is called.
RECURSIVE WakeLoop(_, _)
WakeLoop(cmd, i) ==
    IF i > Len(WAKE_WORDS) THEN [command |-> cmd, yes |-> FALSE, i |-> i]
    ELSE IF Contains(Lower(cmd), WAKE_WORDS[i])
    THEN LET stripped == Strip(Replace(Lower(cmd), WAKE_WORDS[i], <<>>))
         IN  IF stripped = <<>> THEN [command |-> stripped, yes |-> TRUE, i |-> i]
             ELSE WakeLoop(stripped, i + 1)
    ELSE WakeLoop(cmd, i + 1)

\* what follows the wake-word loop: speak("Yes?") inside it, or handle_command
AfterWakeLoop(res) ==
    /\ command' = res.command
    /\ IF res.yes
       THEN CallSpeak(SayYes, "wake_rest") /\ wake_i' = res.i
       ELSE pc' = "hc" /\ wake_i' = 0 /\ UNCHANGED <<ret, say>>

\* listen_for_command returns a transcript, or None (nothing heard, not
\* understood, service error)
ListenForCommand ==
    /\ pc = "cmd_listen"
    /\ command' \in Commands \cup {None}
    /\ pc' = "cmd_got"
    /\ UNCHANGED <<ret, say, envVars, conversation_history, silence_count, wake_i, text>>
    /\ UNCHANGED <<llmVars, ttsVars, shutVars>>

\* listen_for_command raises something it does not catch (no microphone)
ListenForCommandFails ==
    /\ pc = "cmd_listen"
    /\ pc' = Unwind("Exception", Frames("cmd_listen", ret))
    /\ UNCHANGED <<ret, say, envVars, convVars, llmVars, ttsVars, shutVars>>

\* lines 457-463: a capture without speech
NoSpeech ==
    /\ pc = "cmd_got"
    /\ command = None
    /\ silence_count' = silence_count + 1
    /\ IF SilenceLimitReached(silence_count')
       THEN CallSpeak(SayIgnoring, "conv_dismissed")
       ELSE pc' = "cmd_listen" /\ UNCHANGED <<ret, say>>
    /\ UNCHANGED <<envVars, conversation_history, command, wake_i, text>>
    /\ UNCHANGED <<llmVars, ttsVars, shutVars>>

\* lines 465-473: a capture with speech
Speech ==
    /\ pc = "cmd_got"
    /\ command # None
    /\ silence_count' = 0
    /\ AfterWakeLoop(WakeLoop(command, 1))
    /\ UNCHANGED <<envVars, conversation_history, text, llmVars, ttsVars, shutVars>>

\* line 473 `continue`: the for loop goes on with the next wake word
WakeLoopRest ==
    /\ pc = "wake_rest"
    /\ AfterWakeLoop(WakeLoop(command, wake_i + 1))
    /\ UNCHANGED <<envVars, conversation_history, silence_count, text>>
    /\ UNCHANGED <<llmVars, ttsVars, shutVars>>

\* mutant of LeaveConversation: leaving conversation mode empties the buffer
LeaveConversationForgets ==
    /\ pc \in {"conv_dismissed", "hc_exit"}
    /\ pc' = "wake_open"
    /\ silence_count' = 0
    /\ command' = None
    /\ conversation_history' = <<>>
    /\ UNCHANGED <<ret, say, envVars, wake_i, text>>
    /\ UNCHANGED <<llmVars, ttsVars, shutVars>>

\* `break` (line 462, or line 476 after handle_command returned False):
\* run_conversation_mode returns and run calls listen_for_wake_word again
LeaveConversation ==
    /\ pc \in {"conv_dismissed", "hc_exit"}
    /\ pc' = "wake_open"
    /\ silence_count' = 0
    /\ command' = None
    /\ UNCHANGED <<ret, say, envVars, conversation_history, wake_i, text>>
    /\ UNCHANGED <<llmVars, ttsVars, shutVars>>

(***************************************************************************)
(* handle_command                                                          *)
(***************************************************************************)

\* mutant of CommandLower: the command is compared as captured
CommandLowerAsCaptured(cmd) == cmd

\* line 424
CommandLower(cmd) == Strip(Lower(cmd))

IsExitCommand(cmd) == CommandLower(cmd) \in ExitPhrases

IsResetCommand(cmd) == CommandLower(cmd) \in ResetPhrases

\* mutant of ClearedHistory: the buffer is left as it is
KeptHistory == conversation_history

\* line 432
ClearedHistory == <<>>

\* lines 427-429
HandleExit ==
    /\ pc = "hc"
    /\ IsExitCommand(command)
    /\ CallSpeak(SayGoodbye, "hc_exit")
    /\ UNCHANGED <<envVars, convVars, llmVars, ttsVars, shutVars>>

\* lines 431-434
HandleReset ==
    /\ pc = "hc"
    /\ ~IsExitCommand(command)
    /\ IsResetCommand(command)
    /\ conversation_history' = ClearedHistory
    /\ CallSpeak(SayCleared, "hc_reset")
    /\ UNCHANGED <<envVars, silence_count, command, wake_i, text>>
    /\ UNCHANGED <<llmVars, ttsVars, shutVars>>

\* line 437 and format_prompt (lines 288-308): the user turn is appended and
\* the prompt is built; `room` bounds the buffer of the model
HandleQuery(room) ==
    /\ pc = "hc"
    /\ ~IsExitCommand(command)
    /\ ~IsResetCommand(command)
    /\ Len(conversation_history) + 2 <= room
    /\ conversation_history' = Append(conversation_history, UserTurn(command))
    /\ prompt' = BuildPrompt(conversation_history')
    /\ pc' = "q_popen"
    /\ UNCHANGED <<ret, say, envVars, silence_count, command, wake_i, text>>
    /\ UNCHANGED <<running_processes, procs, proc, result_stdout, result_returncode>>
    /\ UNCHANGED <<ttsVars, shutVars>>

\* handle_command returns True (line 434 or 444): the while loop goes on
CommandDone ==
    /\ pc \in {"hc_reset", "hc_spoken"}
    /\ pc' = "cmd_listen"
    /\ command' = None
    /\ UNCHANGED <<ret, say, envVars, conversation_history, silence_count, wake_i, text>>
    /\ UNCHANGED <<llmVars, ttsVars, shutVars>>


(***************************************************************************)
(* query_llm                                                               *)
(***************************************************************************)

\* mutant of Remove: the handle stays in the list
RemoveSkipped(list, x) == list

\* list.remove(x) guarded by `x in list`
Remove(list, x) == SelectSeq(list, LAMBDA y : y # x)

FreePids == {p \in Pids : procs[p] = "none"}

\* mutant of TimeoutKill: the timeout path sends terminate and the process ends on it
TimeoutTerminate(status) == IF status = "running" THEN "terminated" ELSE status

\* mutant of TimeoutKill: the timeout path does not kill
TimeoutKillSkipped(status) == status

\* line 354: proc.kill() on the timeout path
TimeoutKill(status) == IF status = "running" THEN "killed" ELSE status

\* result_returncode on the timeout path (line 356)
TimeoutReturncode == -1

\* lines 337-343: Popen starts the inference process, or raises
Popen ==
    /\ pc = "q_popen"
    /\ \/ /\ FreePids # {}
          /\ LET p == CHOOSE q \in FreePids : \A r \in FreePids : q <= r
             IN  proc' = p /\ procs' = [procs EXCEPT ![p] = "running"]
          /\ pc' = "q_register"
       \/ /\ pc' = Unwind("Exception", Frames("q_popen", ret))
          /\ UNCHANGED <<proc, procs>>
    /\ UNCHANGED <<ret, say, envVars, convVars, ttsVars, shutVars>>
    /\ UNCHANGED <<running_processes, prompt, result_stdout, result_returncode>>

\* line 344
Register ==
    /\ pc = "q_register"
    /\ running_processes' = Append(running_processes, proc)
    /\ pc' = "q_communicate"
    /\ UNCHANGED <<ret, say, envVars, convVars, ttsVars, shutVars>>
    /\ UNCHANGED <<procs, proc, prompt, result_stdout, result_returncode>>

\* an inference process ends by itself (one no handle refers to is reaped)
ProcExits ==
    /\ pc \notin {"cleanup_wait", "exited"}
    /\ \E p \in Pids :
          /\ procs[p] = "running"
          /\ procs' = [procs EXCEPT ![p] = IF p = proc THEN "exited" ELSE "none"]
    /\ UNCHANGED <<pc, ret, say, envVars, convVars, ttsVars, shutVars>>
    /\ UNCHANGED <<running_processes, proc, prompt, result_stdout, result_returncode>>

\* lines 348-351: communicate(timeout=30) returns, the process having ended
CommunicateReturns ==
    /\ pc = "q_communicate"
    /\ procs[proc] # "running"
    /\ result_stdout' \in Outputs
    /\ result_returncode' \in {0, 1}
    /\ pc' = "q_finally"
    /\ UNCHANGED <<ret, say, envVars, convVars, ttsVars, shutVars>>
    /\ UNCHANGED <<running_processes, procs, proc, prompt>>

\* line 352: the process is still running after 30 s
CommunicateTimeout ==
    /\ pc = "q_communicate"
    /\ procs[proc] = "running"
    /\ pc' = "q_kill"
    /\ UNCHANGED <<ret, say, envVars, convVars, llmVars, ttsVars, shutVars>>

\* communicate raises something else (the output cannot be decoded, which is
\* found after the process ended): the finally clause runs and the outer try
\* catches it
CommunicateFails ==
    /\ pc = "q_communicate"
    /\ procs[proc] # "running"
    /\ running_processes' = Remove(running_processes, proc)
    /\ pc' = Unwind("Exception", Frames("q_communicate", ret))
    /\ UNCHANGED <<ret, say, envVars, convVars, ttsVars, shutVars>>
    /\ UNCHANGED <<procs, proc, prompt, result_stdout, result_returncode>>

\* line 354
Kill ==
    /\ pc = "q_kill"
    /\ procs' = [procs EXCEPT ![proc] = TimeoutKill(procs[proc])]
    /\ pc' = "q_communicate2"
    /\ UNCHANGED <<ret, say, envVars, convVars, ttsVars, shutVars>>
    /\ UNCHANGED <<running_processes, proc, prompt, result_stdout, result_returncode>>

\* lines 355-358: communicate() without a timeout returns once the process has ended
CommunicateAfterKill ==
    /\ pc = "q_communicate2"
    /\ procs[proc] # "running"
    /\ result_stdout' \in Outputs
    /\ result_returncode' = TimeoutReturncode
    /\ pc' = "q_finally"
    /\ UNCHANGED <<ret, say, envVars, convVars, ttsVars, shutVars>>
    /\ UNCHANGED <<running_processes, procs, proc, prompt>>

\* lines 359-361
Finally ==
    /\ pc = "q_finally"
    /\ running_processes' = Remove(running_processes, proc)
    /\ pc' = "q_parse"
    /\ UNCHANGED <<ret, say, envVars, convVars, ttsVars, shutVars>>
    /\ UNCHANGED <<procs, proc, prompt, result_stdout, result_returncode>>

\* mutant of Reply: an exit code other than 0 is answered with the error message
ReplyUnlessFailed(stdout) ==
    IF result_returncode # 0 THEN ReplyError
    ELSE IF Strip(stdout) = <<>> THEN ReplyEmpty ELSE Sanitize(Strip(stdout))

\* the value query_llm returns for a given stdout (lines 364-413)
Reply(stdout) ==
    IF Strip(stdout) = <<>> THEN ReplyEmpty ELSE Sanitize(Strip(stdout))

\* mutant of HistoryAfterReply: the apology for a blank output is recorded too
HistoryAfterReplyAlways(hist, stdout) == Append(hist, AssistantTurn(Reply(stdout)))

\* the buffer after lines 364-413
HistoryAfterReply(hist, stdout) ==
    IF Strip(stdout) = <<>> THEN hist
    ELSE Append(hist, AssistantTurn(Sanitize(Strip(stdout))))

\* lines 364-413, then lines 438-441 of handle_command
Parse ==
    /\ pc = "q_parse"
    /\ conversation_history' = HistoryAfterReply(conversation_history, result_stdout)
    /\ CallSpeak(Reply(result_stdout), "hc_spoken")
    /\ procs' = [procs EXCEPT ![proc] = "none"]
    /\ proc' = 0
    /\ prompt' = None
    /\ result_stdout' = None
    /\ result_returncode' = 0
    /\ UNCHANGED <<envVars, silence_count, command, wake_i, text, ttsVars, shutVars>>
    /\ UNCHANGED running_processes

\* lines 415-420, then lines 438-441 of handle_command
ExceptReply ==
    /\ pc \in {"q_except_error", "q_except_timeout"}
    /\ CallSpeak(IF pc = "q_except_timeout" THEN ReplyTimeout ELSE ReplyError, "hc_spoken")
    /\ procs' = [p \in Pids |-> IF p = proc /\ procs[p] # "running" THEN "none" ELSE procs[p]]
    /\ proc' = 0
    /\ prompt' = None
    /\ UNCHANGED <<envVars, convVars, ttsVars, shutVars>>
    /\ UNCHANGED <<running_processes, result_stdout, result_returncode>>

(***************************************************************************)
(* _signal_handler, cleanup, interpreter exit                              *)
(***************************************************************************)

\* mutant of CleanupKill: the except clause does not kill
CleanupKillSkipped(status) == status

\* line 141: proc.kill() after terminate/wait raised
CleanupKill(status) == IF status = "running" THEN "killed" ELSE status

\* SIGINT or SIGTERM is delivered to the main flow: _signal_handler starts
\* (signals arriving while the handler itself runs are not modelled)
Signal ==
    /\ pc \notin ShutdownPcs
    /\ intr_pc' = pc
    /\ sig_seen' = running_processes
    /\ pc' = "cleanup"
    /\ cl_i' = 1
    /\ cl_ret' = "sig_exit"
    /\ UNCHANGED <<ret, say, envVars, convVars, llmVars, ttsVars, exit_status>>

\* lines 134-137: the next handle; terminate() when poll() is None
CleanupVisit ==
    /\ pc = "cleanup"
    /\ cl_i <= Len(running_processes)
    /\ IF procs[running_processes[cl_i]] = "running"
       THEN pc' = "cleanup_wait" /\ UNCHANGED cl_i
       ELSE cl_i' = cl_i + 1 /\ UNCHANGED pc
    /\ UNCHANGED <<ret, say, envVars, convVars, llmVars, ttsVars>>
    /\ UNCHANGED <<exit_status, intr_pc, cl_ret, sig_seen>>

\* line 138: wait(timeout=2) returns (the process ended on SIGTERM), or raises
\* TimeoutExpired, which the bare except answers with kill()
CleanupWait ==
    /\ pc = "cleanup_wait"
    /\ LET p == running_processes[cl_i]
       IN  \/ procs' = [procs EXCEPT ![p] = "terminated"]
           \/ procs' = [procs EXCEPT ![p] = CleanupKill(procs[p])]
    /\ cl_i' = cl_i + 1
    /\ pc' = "cleanup"
    /\ UNCHANGED <<ret, say, envVars, convVars, ttsVars>>
    /\ UNCHANGED <<running_processes, proc, prompt, result_stdout, result_returncode>>
    /\ UNCHANGED <<exit_status, intr_pc, cl_ret, sig_seen>>

\* line 144, and cleanup returns
CleanupClear ==
    /\ pc = "cleanup"
    /\ cl_i > Len(running_processes)
    /\ running_processes' = <<>>
    /\ pc' = cl_ret
    /\ cl_i' = 0
    /\ UNCHANGED <<ret, say, envVars, convVars, ttsVars>>
    /\ UNCHANGED <<procs, proc, prompt, result_stdout, result_returncode>>
    /\ UNCHANGED <<exit_status, intr_pc, cl_ret, sig_seen>>

\* line 130: sys.exit(0) in the handler.  SystemExit unwinds the interrupted
\* flow: the finally clause of query_llm runs, subprocess.run kills its child,
\* and the locals of every frame it leaves are gone
SigExit ==
    /\ pc = "sig_exit"
    /\ running_processes' =
          IF intr_pc \in {"q_communicate", "q_kill", "q_communicate2"}
          THEN Remove(running_processes, proc) ELSE running_processes
    /\ audio' = IF intr_pc \in {"sp_aplay", "sp_espeak_wait"} THEN "none" ELSE audio
    /\ LET target == Unwind("SystemExit", Frames(intr_pc, ret))
       IN  IF target = "uncaught"
           THEN /\ pc' = "atexit"
                /\ exit_status' = 0
                /\ ret' = "none" /\ say' = None
                /\ silence_count' = 0 /\ command' = None /\ wake_i' = 0 /\ text' = None
                /\ proc' = 0 /\ prompt' = None
                /\ result_stdout' = None /\ result_returncode' = 0
           ELSE /\ SpeakGoto(target)
                /\ UNCHANGED <<exit_status, silence_count, command, wake_i, text>>
                /\ UNCHANGED <<proc, prompt, result_stdout, result_returncode>>
    /\ UNCHANGED <<envVars, conversation_history, procs, tmp_exists>>
    /\ UNCHANGED <<intr_pc, cl_i, cl_ret, sig_seen>>

\* interpreter exit: the atexit hook calls cleanup
AtExit ==
    /\ pc = "atexit"
    /\ pc' = "cleanup"
    /\ cl_i' = 1
    /\ cl_ret' = "exited"
    /\ UNCHANGED <<ret, say, envVars, convVars, llmVars, ttsVars>>
    /\ UNCHANGED <<exit_status, intr_pc, sig_seen>>

(***************************************************************************)
(* The assistant                                                           *)
(***************************************************************************)

Next ==
    \/ InitTTS \/ StartupCheck \/ FatalAck
    \/ SpeakEntry \/ SpeakTmpFile \/ SpeakInfer \/ SpeakPlayed \/ SpeakUnlink
    \/ SpeakEspeak \/ SpeakEspeakDone
    \/ WakeOpen \/ WakeCapture \/ WakeCaptureFails \/ WakeCheck \/ WakeReturn
    \/ ListenForCommand \/ ListenForCommandFails \/ NoSpeech \/ Speech
    \/ WakeLoopRest \/ LeaveConversation
    \/ HandleExit \/ HandleReset \/ HandleQuery(MaxHistory) \/ CommandDone
    \/ Popen \/ Register \/ ProcExits \/ CommunicateReturns \/ CommunicateTimeout
    \/ CommunicateFails \/ Kill \/ CommunicateAfterKill \/ Finally \/ Parse
    \/ ExceptReply
    \/ Signal \/ CleanupVisit \/ CleanupWait \/ CleanupClear \/ SigExit \/ AtExit

Spec == Init /\ [][Next]_vars


(***************************************************************************)
(* format_prompt on long buffers                                           *)
(***************************************************************************)

\* turns the buffer may hold in the prompt model
MaxTurns == 24

Digits == <<"0","1","2","3","4","5","6","7","8","9">>

\* the text of the i-th sample turn: numbered, or repeating
SampleText(i, numbered) ==
    IF numbered THEN <<"t","u","r","n"," ">> \o <<Digits[(i \div 10) + 1], Digits[(i % 10) + 1]>>
    ELSE IF i % 2 = 1 THEN <<"h","e","l","l","o">> ELSE <<"H","i","!">>

\* a buffer of n turns as earlier commands leave it: user and assistant turns
\* in alternation
RECURSIVE SampleHistory(_, _)
SampleHistory(n, numbered) ==
    IF n = 0 THEN <<>>
    ELSE Append(SampleHistory(n - 1, numbered),
                [role |-> IF n % 2 = 1 THEN RoleUser ELSE RoleAssistant,
                 content |-> SampleText(n, numbered)])

\* handle_command is entered with a command and a buffer of up to MaxTurns - 2 turns
PromptInit ==
    /\ pc = "hc"
    /\ ret = "none"
    /\ say = None
    /\ model_exists = TRUE
    /\ cli_exists = TRUE
    /\ F5_TTS_AVAILABLE \in BOOLEAN
    /\ tts_engine = F5_TTS_AVAILABLE
    /\ \E n \in 0..(MaxTurns - 2), numbered \in BOOLEAN :
          conversation_history = SampleHistory(n, numbered)
    /\ silence_count = 0
    /\ command \in {<<"h","e","l","l","o">>, <<"s","t","o","p"," ","i","t">>, <<"c","l","e","a","r">>}
    /\ wake_i = 0
    /\ text = None
    /\ running_processes = <<>>
    /\ procs = [p \in Pids |-> "none"]
    /\ proc = 0
    /\ prompt = None
    /\ result_stdout = None
    /\ result_returncode = 0
    /\ audio = "none"
    /\ tmp_exists = FALSE
    /\ exit_status = -1
    /\ intr_pc = "none"
    /\ cl_i = 0
    /\ cl_ret = "none"
    /\ sig_seen = <<>>

PromptNext == HandleQuery(MaxTurns) \/ HandleReset

PromptSpec == PromptInit /\ [][PromptNext]_vars

(***************************************************************************)
(* The response clean-up on arbitrary output                               *)
(***************************************************************************)

\* pieces an output is put together from
MaxChunks == 3

Chunks ==
    { AssistantStart, ImEnd, <<"[">>, <<" ","t","/","s">>, NL, <<" ">>, <<">">>, <<"l","l","a","m","a">>, <<"H","i">>,
      <<"a","v","a","i","l","a","b","l","e">>, <<"c","o","m","m","a","n","d","s">> }

\* every concatenation of up to MaxChunks pieces, and the sample outputs
RawOutputs ==
    {Join(cs, <<>>) : cs \in UNION {[1..k -> Chunks] : k \in 0..MaxChunks}}
        \cup Outputs

\* query_llm has collected the output of its process and left the finally clause
SanitizeInit ==
    /\ pc = "q_parse"
    /\ ret = "none"
    /\ say = None
    /\ model_exists = TRUE
    /\ cli_exists = TRUE
    /\ F5_TTS_AVAILABLE = FALSE
    /\ tts_engine = FALSE
    /\ conversation_history = <<UserTurn(<<"h","e","l","l","o">>)>>
    /\ silence_count = 0
    /\ command = <<"h","e","l","l","o">>
    /\ wake_i = 0
    /\ text = None
    /\ running_processes = <<>>
    /\ procs = [p \in Pids |-> IF p = 1 THEN "exited" ELSE "none"]
    /\ proc = 1
    /\ prompt = BuildPrompt(conversation_history)
    /\ result_stdout \in RawOutputs
    /\ result_returncode = 0
    /\ audio = "none"
    /\ tmp_exists = FALSE
    /\ exit_status = -1
    /\ intr_pc = "none"
    /\ cl_i = 0
    /\ cl_ret = "none"
    /\ sig_seen = <<>>

SanitizeNext == Parse

SanitizeSpec == SanitizeInit /\ [][SanitizeNext]_vars

(***************************************************************************)
(* The states of the assistant loop                                        *)
(***************************************************************************)

\* The state of the AssistantLoop state machine a program point belongs to.
\* A speak call belongs to the transition it is part of: the acknowledgement
\* to wake detection, the dismissal to the return to wake-word listening, the
\* reply to SPEAKING, the others to command handling.
StateOf ==
    IF pc \in InitPcs THEN "STARTING"
    ELSE IF pc \in ShutdownPcs THEN "SHUTTING_DOWN"
    ELSE IF pc = "fatal" THEN "FATAL"
    ELSE IF pc \in QueryPcs \cup {"q_except_error", "q_except_timeout"} THEN "PROCESSING"
    ELSE IF pc \in SpeakPcs
    THEN IF ret \in {"wake_detected", "conv_dismissed"} THEN "WAITING_FOR_WAKE"
         ELSE IF ret = "hc_spoken" THEN "SPEAKING"
         ELSE "LISTENING_FOR_COMMAND"
    ELSE IF pc \in {"wake_open", "wake_listen", "wake_got", "wake_detected", "conv_dismissed"}
    THEN "WAITING_FOR_WAKE"
    ELSE "LISTENING_FOR_COMMAND"

LoopStates == {"WAITING_FOR_WAKE", "LISTENING_FOR_COMMAND", "PROCESSING", "SPEAKING"}


(***************************************************************************)
(* Properties                                                              *)
(***************************************************************************)

\* a step of the main flow, as opposed to the delivery of a signal
MainStep == pc' \notin ShutdownPcs

\* C1: if a shutdown signal is handled while an inference subprocess handle is
\* in running_processes, then when cleanup returns to the handler the registry
\* is empty and none of the processes whose handles it held is running.
C1_CleanupEmptiesRegistry ==
    (pc = "sig_exit" /\ sig_seen # <<>>) =>
        /\ running_processes = <<>>
        /\ \A i \in 1..Len(sig_seen) : procs[sig_seen[i]] # "running"

\* C1 witness: cleanup has returned after killing a registered inference
\* process that did not end within the 2-second wait.
C1_Witness ==
    /\ pc = "sig_exit"
    /\ sig_seen # <<>>
    /\ procs[sig_seen[1]] = "killed"

\* C2: when the inference process is still running after the 30 s timeout,
\* query_llm kills it before it waits without a timeout, so that wait can
\* always return, and the process is not running when query_llm goes on to
\* return.
C2_TimedOutQueryReturns ==
    /\ (pc = "q_communicate2") =>
          (procs[proc] # "running" /\ ENABLED CommunicateAfterKill)
    /\ (pc \in {"q_finally", "q_parse"} /\ result_returncode = TimeoutReturncode) =>
          procs[proc] # "running"

\* C2 witness: query_llm is about to return after a timeout, its process killed.
C2_Witness ==
    /\ pc = "q_parse"
    /\ result_returncode = TimeoutReturncode
    /\ procs[proc] = "killed"

\* the claim's reading of "is an exit phrase" and "is a reset phrase"
SaysExit(cmd) ==
    Strip(Lower(cmd)) \in {<<"s","t","o","p">>, <<"q","u","i","t">>, <<"e","x","i","t">>, <<"g","o","o","d","b","y","e">>, <<"b","y","e">>}

SaysReset(cmd) ==
    Strip(Lower(cmd)) \in {<<"c","l","e","a","r">>, <<"r","e","s","e","t">>, <<"f","o","r","g","e","t">>, <<"n","e","w"," ","c","o","n","v","e","r","s","a","t","i","o","n">>}

\* C3 as claimed: once handle_command has spoken the farewell and returned,
\* the machine is in SHUTTING_DOWN at the next step (it never re-enters
\* WAITING_FOR_WAKE or LISTENING_FOR_COMMAND).
C3_ExitPhraseShutsDown ==
    [][pc = "hc_exit" => StateOf' = "SHUTTING_DOWN"]_vars

\* C3 amended: a command that, lower-cased and trimmed, is an exit phrase makes
\* handle_command speak the farewell without touching the buffer or starting
\* an inference; after the farewell conversation mode ends and the machine is
\* back in WAITING_FOR_WAKE, the process still running.
C3_ExitPhraseLeavesConversation ==
    [][ /\ (pc = "hc" /\ SaysExit(command) /\ MainStep) =>
              /\ pc' = "speak" /\ say' = SayGoodbye /\ ret' = "hc_exit"
              /\ conversation_history' = conversation_history
        /\ (pc = "hc_exit" /\ MainStep) =>
              /\ pc' = "wake_open"
              /\ StateOf' = "WAITING_FOR_WAKE"
              /\ exit_status' = -1 ]_vars

\* C3 witness: the farewell to the captured command "STOP " has been spoken and
\* handle_command has returned False.
C3_Witness ==
    /\ pc = "hc_exit"
    /\ command = <<"S","T","O","P"," ">>

\* C4 as claimed: the machine goes from LISTENING_FOR_COMMAND to
\* WAITING_FOR_WAKE only when the silence counter has reached 3.
C4_OnlySilenceReturnsToWake ==
    [][(StateOf = "LISTENING_FOR_COMMAND" /\ StateOf' = "WAITING_FOR_WAKE") =>
          silence_count' = max_silence]_vars

\* C4 amended: the machine goes from LISTENING_FOR_COMMAND to WAITING_FOR_WAKE
\* exactly when the third consecutive capture without speech arrives or an
\* exit phrase has been answered; a capture without speech adds one to the
\* counter, a capture with speech sets it to 0, and the counter is below 3
\* whenever the machine is in LISTENING_FOR_COMMAND.
C4_SilenceDismissal ==
    /\ [](StateOf = "LISTENING_FOR_COMMAND" => silence_count < max_silence)
    /\ [][ /\ (StateOf = "LISTENING_FOR_COMMAND" /\ StateOf' = "WAITING_FOR_WAKE") =>
                 \/ silence_count' = max_silence /\ say' = SayIgnoring
                 \/ pc = "hc_exit"
           /\ (pc = "cmd_got" /\ command = None /\ MainStep) =>
                 /\ silence_count' = silence_count + 1
                 /\ (silence_count' = max_silence) <=> (StateOf' = "WAITING_FOR_WAKE")
           /\ (pc = "cmd_got" /\ command # None /\ MainStep) =>
                 /\ silence_count' = 0
                 /\ StateOf' = "LISTENING_FOR_COMMAND" ]_vars

\* C4 witness: the dismissal is being spoken after the third silent capture,
\* in a conversation that had successful captures before (the buffer holds turns).
C4_Witness ==
    /\ pc = "speak"
    /\ ret = "conv_dismissed"
    /\ silence_count = max_silence
    /\ conversation_history # <<>>

\* C5: a reset command, whatever the buffer held, leaves the buffer with zero
\* turns and the machine in LISTENING_FOR_COMMAND: the confirmation is spoken
\* and the next capture follows, without PROCESSING or WAITING_FOR_WAKE.
C5_ResetClearsBuffer ==
    [][ /\ (pc = "hc" /\ SaysReset(command) /\ MainStep) =>
              /\ conversation_history' = <<>>
              /\ pc' = "speak" /\ say' = SayCleared /\ ret' = "hc_reset"
        /\ (((pc \in SpeakPcs /\ ret = "hc_reset") \/ pc = "hc_reset") /\ MainStep) =>
              /\ conversation_history = <<>>
              /\ conversation_history' = <<>>
              /\ StateOf' = "LISTENING_FOR_COMMAND"
              /\ pc = "hc_reset" => pc' = "cmd_listen" ]_vars

\* C5 witness: the confirmation of a reset has been spoken, the buffer is empty.
C5_Witness ==
    /\ pc = "hc_reset"
    /\ conversation_history = <<>>

\* C7 as claimed: the reply handle_command hands to speak is never blank (an
\* unusable response has been replaced by the apology).
C7_ReplyNeverBlank ==
    (pc = "speak" /\ ret = "hc_spoken") => ~Blank(say)

\* C8: once a signal has been handled the machine is in SHUTTING_DOWN and stays
\* there; when cleanup has returned the registry is empty; the exit status is
\* 0; and the signal can be delivered in every state of the loop.
C8_SignalShutsDown ==
    /\ (intr_pc # "none") =>
          /\ StateOf = "SHUTTING_DOWN"
          /\ (pc \in {"sig_exit", "atexit", "exited"}) => running_processes = <<>>
          /\ (pc \in {"atexit", "exited"}) => exit_status = 0
          /\ (pc = "sig_exit") => ENABLED SigExit
    /\ (StateOf \in LoopStates) => ENABLED Signal

\* C8 witness: the process has exited after a signal that interrupted the wait
\* for the inference process.
C8_Witness ==
    /\ pc = "exited"
    /\ intr_pc = "q_communicate"
    /\ exit_status = 0

\* C9: with the model file or the inference binary missing, the machine never
\* leaves start-up except to shut down: no wake-word listening, no capture, no
\* subprocess; and the exit that the failed check raises has status 1 (a
\* signal handled during start-up exits with 0 before the check is reached).
C9_StartupFailureExits ==
    (~model_exists \/ ~cli_exists) =>
        /\ StateOf \in {"STARTING", "SHUTTING_DOWN"}
        /\ \A p \in Pids : procs[p] = "none"
        /\ audio = "none"
        /\ (pc = "exited" /\ intr_pc = "none") => exit_status = 1

\* C9 witness: the process has exited with status 1, the inference binary missing.
C9_Witness ==
    /\ pc = "exited"
    /\ model_exists
    /\ ~cli_exists
    /\ exit_status = 1


\* the blocks of the turns i, i+1, ... of buffer h, in buffer order
RECURSIVE BlocksFrom(_, _)
BlocksFrom(h, i) ==
    IF i > Len(h) THEN <<>>
    ELSE ImStart \o h[i].role \o NL \o h[i].content \o ImEnd \o NL \o BlocksFrom(h, i + 1)

\* the prompt the claim describes for a buffer h
WindowedPrompt(h) ==
    LET n == Len(h)
        k == IF n < HistoryWindow THEN n ELSE HistoryWindow
    IN  SystemPreamble \o BlocksFrom(h, n - k + 1) \o AssistantOpen

\* C6: format_prompt appends the user turn to the buffer, dropping nothing, and
\* builds: the system preamble, once and at the start; then the most recent
\* min(20, n) turns of the n-turn buffer in buffer order, the new user turn
\* last; then the open assistant tag.
C6_PromptIsWindowedHistory ==
    [][(pc = "hc" /\ pc' = "q_popen") =>
          /\ conversation_history' = conversation_history \o <<UserTurn(command)>>
          /\ prompt' = WindowedPrompt(conversation_history')
          /\ {i \in 1..Len(prompt') : IsAt(prompt', SystemPreamble, i)} = {1} ]_vars

\* C6 witness: a prompt has been built from a buffer of more than 20 distinct
\* turns; the oldest turn is in the buffer and not in the prompt.
C6_Witness ==
    /\ pc = "q_popen"
    /\ Len(conversation_history) > HistoryWindow
    /\ conversation_history[1].content # conversation_history[3].content
    /\ ~Contains(prompt, RenderTurn(conversation_history[1]))
    /\ Contains(prompt, RenderTurn(conversation_history[Len(conversation_history)]))

\* C10: the clean-up steps are idempotent: cleaning the cleaned response gives
\* the cleaned response again, for the output as read and as query_llm cleans
\* it (trimmed first).
C10_SanitizeIdempotent ==
    [][(pc = "q_parse" /\ pc' = "speak") =>
          /\ Sanitize(Sanitize(result_stdout)) = Sanitize(result_stdout)
          /\ (Strip(result_stdout) # <<>>) =>
                /\ say' = Sanitize(Strip(result_stdout))
                /\ Sanitize(say') = say' ]_vars

\* C10 witness: an output with prompt echo, end marker and statistics footer
\* has been cleaned to "Hello there", which is the reply and the assistant turn.
C10_Witness ==
    /\ pc = "speak"
    /\ ret = "hc_spoken"
    /\ say = <<"H","e","l","l","o"," ","t","h","e","r","e">>
    /\ Last(conversation_history) = AssistantTurn(<<"H","e","l","l","o"," ","t","h","e","r","e">>)

\* a configured wake-phrase variant occurs in t at some position
WakePhraseIn(t) ==
    \E i \in 1..Len(WAKE_WORDS) : \E k \in 1..Len(t) : IsAt(t, WAKE_WORDS[i], k)

\* C11: in wake-word mode a capture either fails (not understood, service
\* error, any other exception) and listening goes on without raising, or
\* yields the lower-cased transcript; a transcript containing a wake-phrase
\* variant starts the acknowledgement, any other keeps the machine listening;
\* the machine enters LISTENING_FOR_COMMAND from WAITING_FOR_WAKE only by the
\* return that follows the acknowledgement.
C11_WakeOnlyOnWakePhrase ==
    [][ /\ (pc = "wake_listen" /\ MainStep) =>
              /\ pc' \in {"wake_listen", "wake_got"}
              /\ pc' = "wake_got" => \E t \in WakeTranscripts : text' = Lower(t)
        /\ (pc = "wake_got" /\ MainStep) =>
              IF WakePhraseIn(text)
              THEN pc' = "speak" /\ say' = SayWhat /\ ret' = "wake_detected"
              ELSE pc' = "wake_listen"
        /\ (StateOf = "WAITING_FOR_WAKE" /\ StateOf' = "LISTENING_FOR_COMMAND") =>
              pc = "wake_detected"
        /\ (pc' = "wake_detected" /\ pc # "wake_detected") =>
              pc \in SpeakPcs /\ ret = "wake_detected" /\ say = SayWhat ]_vars

\* C11 witness: the acknowledgement of "Hey Gwen what's up" has been made and
\* listen_for_wake_word is about to return True.
C11_Witness ==
    /\ pc = "wake_detected"
    /\ ret = "none"
    /\ exit_status = -1

\* C12 as claimed: a shutdown signal, whenever it is delivered, finds every
\* running inference process in the registry, and none is running once the
\* process has exited.
C12_SignalFindsEverySpawned ==
    (intr_pc # "none") =>
        /\ \A p \in Pids :
              procs[p] = "running" => \E i \in 1..Len(sig_seen) : sig_seen[i] = p
        /\ (pc = "exited") => \A p \in Pids : procs[p] # "running"

\* C13 as claimed: when stripping the wake phrase leaves nothing, then after
\* "Yes?" has been spoken the next capture follows: handle_command is not
\* entered, the buffer is not touched and no inference is started for it.
C13_EmptyRemainderSkipsProcessing ==
    [][(pc = "wake_rest" /\ MainStep) =>
          /\ pc' = "cmd_listen"
          /\ conversation_history' = conversation_history]_vars

\* C14 as claimed: whenever the machine passes from PROCESSING to SPEAKING, one
\* assistant turn has been appended to the buffer.
C14_AssistantTurnEveryPass ==
    [][(StateOf = "PROCESSING" /\ StateOf' = "SPEAKING") =>
          /\ Len(conversation_history') = Len(conversation_history) + 1
          /\ conversation_history'[Len(conversation_history')].role = RoleAssistant]_vars

\* C14 amended: entering PROCESSING appends one user turn holding the command,
\* before any inference process exists; within PROCESSING the buffer does not
\* change; on the way to SPEAKING one assistant turn holding the sanitized
\* response is appended when the output is not blank, and none when the output
\* is blank or the query raised (the apology is spoken, the buffer ends with
\* the user turn); SPEAKING leaves the buffer alone and is followed by
\* LISTENING_FOR_COMMAND.
C14_TurnsPerCommand ==
    [][ /\ (StateOf # "PROCESSING" /\ StateOf' = "PROCESSING") =>
              /\ conversation_history' = Append(conversation_history, UserTurn(command))
              /\ pc' = "q_popen"
              /\ procs' = procs /\ running_processes' = <<>>
        /\ (StateOf = "PROCESSING" /\ StateOf' = "PROCESSING") =>
              conversation_history' = conversation_history
        /\ (StateOf = "PROCESSING" /\ MainStep) => StateOf' \in {"PROCESSING", "SPEAKING"}
        /\ (StateOf = "PROCESSING" /\ StateOf' = "SPEAKING") =>
              \/ /\ pc = "q_parse" /\ Strip(result_stdout) # <<>>
                 /\ say' = Sanitize(Strip(result_stdout))
                 /\ conversation_history' = Append(conversation_history, AssistantTurn(say'))
              \/ /\ pc = "q_parse" /\ Strip(result_stdout) = <<>>
                 /\ say' = ReplyEmpty
                 /\ conversation_history' = conversation_history
              \/ /\ pc = "q_except_error"
                 /\ say' = ReplyError
                 /\ conversation_history' = conversation_history
        /\ (StateOf = "SPEAKING" /\ MainStep) =>
              /\ StateOf' \in {"SPEAKING", "LISTENING_FOR_COMMAND"}
              /\ conversation_history' = conversation_history ]_vars

\* C14 witness: two commands have been completed, the first answered with an
\* apology and the second with a response: user, user, assistant.
C14_Witness ==
    /\ pc = "hc_spoken"
    /\ Len(conversation_history) = 3
    /\ conversation_history[1].role = RoleUser
    /\ conversation_history[2].role = RoleUser
    /\ conversation_history[3].role = RoleAssistant

\* terminate() has been sent to process p and its 2-second wait is running
TerminateSent(p) == pc = "cleanup_wait" /\ running_processes[cl_i] = p

C16_PartialOutputIsUsed ==
    [][ /\ (pc = "q_parse" /\ pc' = "speak" /\ Strip(result_stdout) # <<>>) =>
              /\ say' = Sanitize(Strip(result_stdout))
              /\ ret' = "hc_spoken"
              /\ conversation_history' = Append(conversation_history, AssistantTurn(say'))
        /\ (pc = "q_communicate2" /\ pc' = "q_finally") =>
              result_returncode' = TimeoutReturncode
        /\ (pc' = "q_parse" /\ procs'[proc'] = "killed") =>
              result_returncode' = TimeoutReturncode
        /\ (pc \in {"q_communicate", "q_communicate2", "q_finally", "q_parse"} /\ MainStep) =>
              pc' # "q_except_timeout" ]_vars

\* C16 witness: query_llm has left its finally clause with the partial output
\* "Hi!" of a process it killed on timeout, marked -1.
C16_Witness ==
    /\ pc = "q_parse"
    /\ result_returncode = TimeoutReturncode
    /\ procs[proc] = "killed"
    /\ Strip(result_stdout) = <<"H","i","!">>
    /\ running_processes = <<>>

\* C17 as claimed: when speak is not running (it has not been called yet, or
\* it has returned) no temporary audio file of its primary path exists.
C17_TempFileDeletedOnReturn ==
    (pc \notin SpeakPcs \cup ShutdownPcs) => ~tmp_exists

\* the program points of the primary synthesis path and of the fallback
PrimaryPcs == {"sp_tmpfile", "sp_infer", "sp_aplay", "sp_unlink"}

FallbackPcs == {"sp_espeak", "sp_espeak_wait"}

\* C18: speak returns at once on blank text, starting no audio process; on
\* other text it takes the primary path or, when that is unavailable, the
\* fallback; the primary path ends by returning after the unlink or, on an
\* exception, by entering the fallback; the fallback is attempted once and
\* ends, failed or timed out or not, by returning; speak leaves for no point
\* other than the one it was called from, and after the reply that point is in
\* LISTENING_FOR_COMMAND.
C18_SpeakNeverRaises ==
    [][ /\ (pc = "speak" /\ MainStep /\ pc' # "speak") =>
              IF Blank(say) THEN pc' = ret /\ audio = "none" /\ audio' = "none"
              ELSE pc' \in {"sp_tmpfile", "sp_espeak"}
        /\ (pc \in SpeakPcs /\ MainStep) => pc' \in SpeakPcs \cup {ret}
        /\ (pc \in PrimaryPcs /\ MainStep) =>
              /\ pc' \in PrimaryPcs \cup {"sp_espeak", ret}
              /\ pc' = ret => pc = "sp_unlink"
              /\ pc' = "sp_espeak" => pc \in {"sp_infer", "sp_aplay"}
        /\ (pc \in FallbackPcs /\ MainStep) =>
              /\ pc' \in FallbackPcs \cup {ret}
              /\ pc = "sp_espeak_wait" => pc' # "sp_espeak"
        /\ (pc \in SpeakPcs /\ ret = "hc_spoken" /\ pc' \notin SpeakPcs /\ MainStep) =>
              pc' = "hc_spoken" /\ StateOf' = "LISTENING_FOR_COMMAND" ]_vars

\* C18 witness: the speak call of the reply has returned, after a failure of
\* the primary path (whose temporary file is still there) was answered by the
\* fallback.
C18_Witness ==
    /\ pc = "hc_spoken"
    /\ tmp_exists
    /\ audio = "none"
    /\ exit_status = -1

\* the program points of wake detection, of a capture and its no-speech
\* handling, of the silence dismissal and of the answer to an exit phrase
QuietPoint ==
    \/ StateOf = "WAITING_FOR_WAKE"
    \/ pc \in {"cmd_listen", "hc_exit"}
    \/ pc = "cmd_got" /\ command = None
    \/ pc = "hc" /\ SaysExit(command)
    \/ pc \in SpeakPcs /\ ret = "hc_exit"

\* C19: a step changes the buffer only by emptying it on a reset command or by
\* appending one turn at its end, the turns before it kept as they are, on
\* entering or leaving PROCESSING; wake detection, a capture, a no-speech
\* result, the silence dismissal and the exit phrase change neither the buffer
\* nor the set of running inference processes except that one may end.
C19_BufferAppendOrReset ==
    [][ /\ (conversation_history' # conversation_history) =>
              \/ /\ pc = "hc" /\ SaysReset(command)
                 /\ conversation_history' = <<>>
              \/ /\ Len(conversation_history') = Len(conversation_history) + 1
                 /\ SubSeq(conversation_history', 1, Len(conversation_history)) = conversation_history
                 /\ "PROCESSING" \in {StateOf, StateOf'}
        /\ QuietPoint =>
              /\ conversation_history' = conversation_history
              /\ \A p \in Pids : procs'[p] = "running" => procs[p] = "running"
              /\ StateOf' # "PROCESSING" ]_vars

\* C19 witness: after a completed command and a dismissal or exit phrase the
\* machine listens for the wake word again, the two turns still in the buffer.
C19_Witness ==
    /\ pc = "wake_listen"
    /\ Len(conversation_history) = 2
    /\ conversation_history[2].role = RoleAssistant

\* C20: the registry never holds more than one handle; it is empty in
\* WAITING_FOR_WAKE, LISTENING_FOR_COMMAND and SPEAKING, where query_llm has
\* returned or has not been called, in its except clause, and once the
\* cleanup of the signal handler has returned; and the steps of the cleanup
\* that the atexit hook runs find it empty and change neither it nor any
\* process.
C20_RegistryHoldsOnlyTheQuery ==
    /\ [](/\ Len(running_processes) <= 1
          /\ (StateOf \in {"WAITING_FOR_WAKE", "LISTENING_FOR_COMMAND", "SPEAKING"}) =>
                running_processes = <<>>
          /\ (pc \in {"q_parse", "q_except_error", "fatal", "sig_exit", "atexit", "exited"}) =>
                running_processes = <<>>
          /\ (running_processes # <<>> /\ intr_pc = "none") =>
                running_processes = <<proc>>)
    /\ [][(pc \in {"cleanup", "cleanup_wait"} /\ cl_ret = "exited" /\ pc' # pc) =>
              /\ running_processes = <<>>
              /\ running_processes' = <<>>
              /\ procs' = procs
              /\ pc' = "exited"]_vars

\* C20 witness: the process has exited after a signal that found the handle of
\* the running query in the registry: both cleanups have run.
C20_Witness ==
    /\ pc = "exited"
    /\ cl_ret = "exited"
    /\ sig_seen = <<1>>
    /\ procs[1] = "terminated"
    /\ running_processes = <<>>


====
